---- MODULE Spec2Model ----
(***************************************************************************)
(* A model of the survey processing of ml_survey_data_processing:          *)
(*   src/data_processing/processor.py  SurveyProcessor, MLSurveyProcessor  *)
(*   src/data_analysis/analysis.py     calculate_chi_square                *)
(*                                                                         *)
(* Strings are sequences of tokens.  An answer code is written character   *)
(* by character (<<"A","1">> is 'A1'), a column name lexeme by lexeme      *)
(* (<<"AWA2","[","SQ001","]">> is 'AWA2[SQ001]'); the words 'other' and    *)
(* 'comment' are always tokens of their own, so that Python's substring    *)
(* tests, find, slices and replace become tests and edits of tokens.       *)
(* A cell value is a record [t, n, s]: t is its Python type ("nan", "int", *)
(* "str"), n its number and s its string.                                  *)
(***************************************************************************)
EXTENDS Integers, Sequences, FiniteSets, TLC

VARIABLES
    dataframe,       \* self.survey.dataframe: the respondents' rows
    completed_only,  \* argument of the last call of process_user_input
    fill_na,         \* argument of the last call
    data_df,         \* local data_df of the last call, when it ended
    survey_df_copy,  \* local survey_df_copy of the last call, when it ended
    result,          \* what the last call returned or raised
    history,         \* the arguments and outcomes of all calls, oldest first
    ans_code,        \* argument of convert_answer_code_to_int
    conv,            \* its outcome
    contigency_table,\* argument of calculate_chi_square
    chi_pc,          \* where calculate_chi_square is
    printed          \* what calculate_chi_square has printed so far

vars == <<dataframe, completed_only, fill_na, data_df, survey_df_copy,
          result, history, ans_code, conv, contigency_table, chi_pc, printed>>

procVars == <<dataframe, completed_only, fill_na, data_df, survey_df_copy,
              result, history>>
convVars == <<ans_code, conv>>
chiVars == <<contigency_table, chi_pc, printed>>

-----------------------------------------------------------------------------
(* Bounds of the model. *)

\* respondents in survey.dataframe
MaxRows == 2
\* calls of process_user_input on one processor
MaxCalls == 3
\* characters of an answer code given to convert_answer_code_to_int
MaxLen == 3
\* the cells of a contingency table range over MinCell - 1 .. MinCell - 1 + CellSpan
CellSpan == 2

-----------------------------------------------------------------------------
(* Values and strings. *)

NaN == [t |-> "nan", n |-> 0, s |-> <<>>]
StrVal(s) == [t |-> "str", n |-> 0, s |-> s]
IntVal(n) == [t |-> "int", n |-> n, s |-> <<>>]

\* pd.isna(columnData)
IsNa(v) == v.t = "nan"

\* a row of survey.dataframe holds the fields that are not missing:
\* row[column] of the code
Value(row, column) == IF column \in DOMAIN row THEN row[column] ELSE NaN

Digits == <<"0", "1", "2", "3", "4", "5", "6", "7", "8", "9">>

IsDigit(c) == \E d \in 1..Len(Digits) : Digits[d] = c

DigitValue(c) == (CHOOSE d \in 1..Len(Digits) : Digits[d] = c) - 1

\* re.sub(r"\D", "", ans_code): the digits of the code, in order
RECURSIVE KeepDigits(_)
KeepDigits(s) ==
    IF s = <<>> THEN <<>>
    ELSE IF IsDigit(Head(s)) THEN <<Head(s)>> \o KeepDigits(Tail(s))
         ELSE KeepDigits(Tail(s))

\* int(ans) of a non-empty string of digits
RECURSIVE ParseInt(_)
ParseInt(s) ==
    IF s = <<>> THEN 0
    ELSE ParseInt(SubSeq(s, 1, Len(s) - 1)) * 10 + DigitValue(s[Len(s)])

\* a faulty variant of ConvertAnswerCodeToInt: only the last digit is read
ConvertAnswerCodeToInt_LastDigit(v) ==
    IF v.t # "str" THEN [exc |-> "Exception", val |-> 0]
    ELSE IF v.s = <<"Y">> THEN [exc |-> "", val |-> 1]
    ELSE IF KeepDigits(v.s) = <<>> THEN [exc |-> "ValueError", val |-> 0]
         ELSE [exc |-> "", val |-> DigitValue(KeepDigits(v.s)[Len(KeepDigits(v.s))])]

\* convert_answer_code_to_int: [exc, val]; exc is "" when val is returned.
\* int("") raises ValueError.
ConvertAnswerCodeToInt(v) ==
    IF v.t # "str" THEN [exc |-> "Exception", val |-> 0]
    ELSE IF v.s = <<"Y">> THEN [exc |-> "", val |-> 1]
    ELSE IF KeepDigits(v.s) = <<>> THEN [exc |-> "ValueError", val |-> 0]
         ELSE [exc |-> "", val |-> ParseInt(KeepDigits(v.s))]

\* s.find(c): the first place of c, counted from 0, and -1 when there is none
Find(s, c) ==
    IF \E k \in 1..Len(s) : s[k] = c
    THEN (CHOOSE k \in 1..Len(s) : s[k] = c /\ \A j \in 1..(k - 1) : s[j] # c) - 1
    ELSE -1

\* Python's index of a slice bound: a negative bound counts from the end
SliceBound(s, b) ==
    IF b < 0 THEN (IF Len(s) + b < 0 THEN 0 ELSE Len(s) + b)
    ELSE IF b > Len(s) THEN Len(s) ELSE b

\* s[lo:hi]
Slice(s, lo, hi) == SubSeq(s, SliceBound(s, lo) + 1, SliceBound(s, hi))

\* sub in s, for a one-token sub
Contains(s, tok) == \E k \in 1..Len(s) : s[k] = tok

\* s.replace(tok, '') for a one-token tok
RECURSIVE RemoveToken(_, _)
RemoveToken(s, tok) ==
    IF s = <<>> THEN <<>>
    ELSE IF Head(s) = tok THEN RemoveToken(Tail(s), tok)
         ELSE <<Head(s)>> \o RemoveToken(Tail(s), tok)

\* s.replace('[]', ''): left to right, without overlap
RECURSIVE RemoveEmptyBrackets(_)
RemoveEmptyBrackets(s) ==
    IF Len(s) < 2 THEN s
    ELSE IF s[1] = "[" /\ s[2] = "]" THEN RemoveEmptyBrackets(SubSeq(s, 3, Len(s)))
         ELSE <<Head(s)>> \o RemoveEmptyBrackets(Tail(s))

-----------------------------------------------------------------------------
(* The survey structure: survey.questions, as limepy reads it from the     *)
(* .lss file.  A key that a question does not have ('answers',             *)
(* 'subquestions') is an empty sequence here.                              *)

Answer(code, text, sortorder) ==
    [code |-> code, answer |-> text, sortorder |-> sortorder]

SubQuestion(title, text) == [title |-> title, question |-> text]

Question(qid, title, type, answers, subquestions) ==
    [qid |-> qid, title |-> title, question_type |-> type,
     answers |-> answers, subquestions |-> subquestions]

A1 == <<"A", "1">>
A2 == <<"A", "2">>
A3 == <<"A", "3">>
Oth == <<"-", "o", "t", "h", "-">>
Yes == <<"Y">>

\* survey.questions, in the order of its keys
Questions ==
    << Question(<<"1">>, <<"DEM1">>, "List radio",
                <<Answer(A1, <<"female">>, <<"1">>), Answer(A2, <<"male">>, <<"2">>)>>,
                <<>>),
       Question(<<"2">>, <<"DEM3">>, "List dropdown",
                <<Answer(A1, <<"student">>, <<"1">>)>>,
                <<>>),
       Question(<<"3">>, <<"AWA1">>, "List with comment",
                <<Answer(A1, <<"aware">>, <<"1">>)>>,
                <<>>),
       Question(<<"4">>, <<"AWA2">>, "Multiple choice",
                <<>>,
                <<SubQuestion(<<"SQ001">>, <<"news">>)>>),
       Question(<<"5">>, <<"IMP3">>, "Multiple choice with comments",
                <<>>,
                <<SubQuestion(<<"SQ001">>, <<"audits">>)>>),
       Question(<<"6">>, <<"IMP5">>, "Ranking",
                <<Answer(A1, <<"privacy">>, <<"1">>), Answer(A2, <<"accuracy">>, <<"2">>),
                  Answer(A3, <<"speed">>, <<"3">>)>>,
                <<>>),
       Question(<<"7">>, <<"PRA">>, "Array",
                <<Answer(A1, <<"often">>, <<"1">>)>>,
                <<SubQuestion(<<"SQ001">>, <<"testing">>),
                  SubQuestion(<<"SQ002">>, <<"review">>)>>),
       Question(<<"8">>, <<"TXT1">>, "Short free text", <<>>, <<>>),
       Question(<<"9">>, <<"GEN2">>, "Multiple choice",
                <<>>,
                <<SubQuestion(<<"SQ001">>, <<"python">>)>>) >>

\* the questions that offer an 'other' option: LimeSurvey exports a column
\* title[other] for each, and title[othercomment] for a multiple choice with
\* comments
WithOther == {<<"DEM3">>, <<"AWA2">>, <<"IMP3">>, <<"GEN2">>}

\* question_code + "[" + sub_question_code + "]"
Merged(question_code, sub_code) == question_code \o <<"[">> \o sub_code \o <<"]">>

\* make_answer_code_to_text_mapping: mapping[title] as a function from the
\* codes to the texts
MakeAnswerCodeToTextMapping(qs) ==
    [title \in {qs[k].title : k \in 1..Len(qs)} |->
        LET q == qs[CHOOSE k \in 1..Len(qs) : qs[k].title = title
                        /\ \A j \in (k + 1)..Len(qs) : qs[j].title # title]
        IN  IF q.answers # <<>>
            THEN [c \in {q.answers[k].code : k \in 1..Len(q.answers)} |->
                    q.answers[CHOOSE k \in 1..Len(q.answers) :
                        q.answers[k].code = c
                        /\ \A j \in (k + 1)..Len(q.answers) : q.answers[j].code # c].answer]
            ELSE [c \in {q.subquestions[k].title : k \in 1..Len(q.subquestions)} |->
                    q.subquestions[CHOOSE k \in 1..Len(q.subquestions) :
                        q.subquestions[k].title = c
                        /\ \A j \in (k + 1)..Len(q.subquestions) :
                              q.subquestions[j].title # c].question]]

\* obtain_answer_text: [exc, text]; a missing key raises KeyError
ObtainAnswerText(q_code, mapping, a_code) ==
    IF Contains(q_code, "[")
    THEN LET inner_part == Slice(q_code, Find(q_code, "[") + 1, Find(q_code, "]"))
             outer_part == Slice(q_code, 0, Find(q_code, "["))
         IN  IF outer_part \in DOMAIN mapping /\ inner_part \in DOMAIN mapping[outer_part]
             THEN [exc |-> "", text |-> mapping[outer_part][inner_part]]
             ELSE [exc |-> "KeyError", text |-> <<>>]
    ELSE IF a_code.t = "str" /\ q_code \in DOMAIN mapping /\ a_code.s \in DOMAIN mapping[q_code]
         THEN [exc |-> "", text |-> mapping[q_code][a_code.s]]
         ELSE [exc |-> "KeyError", text |-> <<>>]

\* the columns one question adds to the question overview
OverviewColumns(q) ==
    IF q.question_type \in {"Multiple choice", "Multiple choice with comments", "Array"}
    THEN [k \in 1..Len(q.subquestions) |-> Merged(q.title, q.subquestions[k].title)]
    ELSE IF q.question_type = "Ranking"
    THEN [k \in 1..Len(q.answers) |-> Merged(q.title, q.answers[k].sortorder)]
    ELSE <<q.title>>

\* create_question_overview_df: the 'Question Type' row of the overview, as a
\* function from its answer columns (the 'Question' and 'Lime Index' rows are
\* never read by the processor)
CreateQuestionOverviewDf(qs) ==
    LET cols(k) == {OverviewColumns(qs[k])[j] : j \in 1..Len(OverviewColumns(qs[k]))}
        all == UNION {cols(k) : k \in 1..Len(qs)}
    IN  [c \in all |->
            qs[CHOOSE k \in 1..Len(qs) : c \in cols(k)
                  /\ \A j \in (k + 1)..Len(qs) : c \notin cols(j)].question_type]


-----------------------------------------------------------------------------
(* The schema: the two-level (code, version) columns of the empty table.   *)

\* MultiIndex.from_product([[code], versions])
Product(code, versions) == {<<code, v>> : v \in versions}

\* a faulty variant of SchemaColumns: a ranking column is named after the
\* answer's code instead of its sortorder
SchemaColumns_RankingByCode(q) ==
    LET t == q.question_type
        subs == {q.subquestions[k].title : k \in 1..Len(q.subquestions)}
    IN  IF t \in {"List radio", "List dropdown"}
        THEN Product(q.title, {<<"a_code">>, <<"a_text">>, <<"a">>})
        ELSE IF t = "Multiple choice"
        THEN UNION {Product(Merged(q.title, sq), {<<"a_text">>, <<"a">>}) : sq \in subs}
        ELSE IF t = "List with comment"
        THEN Product(q.title, {<<"a_code">>, <<"a_text">>, <<"a">>,
                               q.title \o <<"[", "comment", "]">>})
        ELSE IF t = "Multiple choice with comments"
        THEN UNION {Product(Merged(q.title, sq),
                            {<<"a_text">>, <<"a">>,
                             q.title \o <<"[">> \o sq \o <<"comment", "]">>}) : sq \in subs}
        ELSE IF t = "Ranking"
        THEN UNION {Product(Merged(q.title, q.answers[k].code), {<<"a">>, <<"a_text">>})
                    : k \in 1..Len(q.answers)}
        ELSE IF t = "Array"
        THEN UNION {Product(Merged(q.title, sq), {<<"a_code">>, <<"a_text">>, <<"a">>})
                    : sq \in subs}
        ELSE IF t \in {"Long free text", "Short free text"}
        THEN Product(q.title, {<<"a">>})
        ELSE {}

\* the columns SurveyProcessor.convert_questions_to_df creates for one question
SchemaColumns(q) ==
    LET t == q.question_type
        subs == {q.subquestions[k].title : k \in 1..Len(q.subquestions)}
    IN  IF t \in {"List radio", "List dropdown"}
        THEN Product(q.title, {<<"a_code">>, <<"a_text">>, <<"a">>})
        ELSE IF t = "Multiple choice"
        THEN UNION {Product(Merged(q.title, sq), {<<"a_text">>, <<"a">>}) : sq \in subs}
        ELSE IF t = "List with comment"
        THEN Product(q.title, {<<"a_code">>, <<"a_text">>, <<"a">>,
                               q.title \o <<"[", "comment", "]">>})
        ELSE IF t = "Multiple choice with comments"
        THEN UNION {Product(Merged(q.title, sq),
                            {<<"a_text">>, <<"a">>,
                             q.title \o <<"[">> \o sq \o <<"comment", "]">>}) : sq \in subs}
        ELSE IF t = "Ranking"
        THEN UNION {Product(Merged(q.title, q.answers[k].sortorder), {<<"a">>, <<"a_text">>})
                    : k \in 1..Len(q.answers)}
        ELSE IF t = "Array"
        THEN UNION {Product(Merged(q.title, sq), {<<"a_code">>, <<"a_text">>, <<"a">>})
                    : sq \in subs}
        ELSE IF t \in {"Long free text", "Short free text"}
        THEN Product(q.title, {<<"a">>})
        ELSE {}

\* SurveyProcessor.convert_questions_to_df: pd.concat(frames)
ConvertQuestionsToDf(qs) == UNION {SchemaColumns(qs[k]) : k \in 1..Len(qs)}

\* the metadata columns process_user_input copies as they come
MetadataColumns ==
    {<<"submitdate">>, <<"lastpage">>, <<"startlanguage">>, <<"seed">>,
     <<"startdate">>, <<"datestamp">>, <<"id">>}

\* the 'other' fields MLSurveyProcessor.convert_questions_to_df inserts
MLOtherFields ==
    {<<<<"AWA2">>, <<"AWA2", "[", "other", "]">>>>,
     <<<<"DEM3">>, <<"DEM3", "[", "other", "]">>>>,
     <<<<"IMP3">>, <<"IMP3", "[", "other", "]">>>>,
     <<<<"IMP3">>, <<"IMP3", "[", "other", "comment", "]">>>>}

\* MLSurveyProcessor.convert_questions_to_df; inserting "id" into two-level
\* columns gives the column ("id", "")
MLConvertQuestionsToDf(qs) ==
    ConvertQuestionsToDf(qs) \cup {<<m, <<>>>> : m \in MetadataColumns} \cup MLOtherFields

IdColumn == <<<<"id">>, <<>>>>


-----------------------------------------------------------------------------
(* process_user_input, one value of one respondent at a time.              *)

\* participant_dict[key] = value
Put(dict, key, value) == (key :> value) @@ dict

\* a faulty variant of ListCells: the answer code is written as the text too
ListCells_CodeAsText(dict, columnName, columnData, text, number) ==
    Put(Put(Put(dict, <<columnName, <<"a_code">>>>, columnData),
            <<columnName, <<"a_text">>>>, columnData),
        <<columnName, <<"a">>>>, IntVal(number))

\* the dictionary after the three cells of a list or array answer
ListCells(dict, columnName, columnData, text, number) ==
    Put(Put(Put(dict, <<columnName, <<"a_code">>>>, columnData),
            <<columnName, <<"a_text">>>>, StrVal(text)),
        <<columnName, <<"a">>>>, IntVal(number))

\* the dictionary after the two cells of a multiple choice or ranking answer
TextCells(dict, columnName, text, number) ==
    Put(Put(dict, <<columnName, <<"a_text">>>>, StrVal(text)),
        <<columnName, <<"a">>>>, IntVal(number))

\* the branch "for specific question type" of the loop body: [exc, dict]
ProcessAnswer(dict, columnName, columnData, question_type, mapping) ==
    LET outer_part == Slice(columnName, 0, Find(columnName, "["))
        number == ConvertAnswerCodeToInt(columnData)
        raise(e) == [exc |-> e, dict |-> dict]
        done(d) == [exc |-> "", dict |-> d]
    IN  IF question_type \in {"List radio", "List dropdown", "List with comment"}
        THEN LET text == ObtainAnswerText(columnName, mapping, columnData)
             IN  IF text.exc # "" THEN raise(text.exc)
                 ELSE IF number.exc # "" THEN raise(number.exc)
                 ELSE done(ListCells(dict, columnName, columnData, text.text, number.val))
        ELSE IF question_type \in {"Multiple choice", "Multiple choice with comments"}
        THEN LET text == ObtainAnswerText(columnName, mapping, NaN)
             IN  IF text.exc # "" THEN raise(text.exc)
                 ELSE IF number.exc # "" THEN raise(number.exc)
                 ELSE done(TextCells(dict, columnName, text.text, number.val))
        ELSE IF question_type = "Ranking"
        THEN LET text == ObtainAnswerText(outer_part, mapping, columnData)
             IN  IF text.exc # "" THEN raise(text.exc)
                 ELSE IF number.exc # "" THEN raise(number.exc)
                 ELSE done(TextCells(dict, columnName, text.text, number.val))
        ELSE IF question_type = "Array"
        THEN LET text == ObtainAnswerText(outer_part, mapping, columnData)
             IN  IF text.exc # "" THEN raise(text.exc)
                 ELSE IF number.exc # "" THEN raise(number.exc)
                 ELSE done(ListCells(dict, columnName, columnData, text.text, number.val))
        ELSE IF question_type \in {"Long free text", "Short free text"}
        THEN done(Put(dict, <<columnName, <<"a">>>>, columnData))
        ELSE done(dict)

\* a faulty variant of ProcessValue: the test for an unforeseen column is
\* left out and its value is dropped
ProcessValue_NoRaise(dict, columnName, columnData, overview, mapping) ==
    IF IsNa(columnData) THEN [exc |-> "", dict |-> dict]
    ELSE IF Contains(columnName, "other")
    THEN [exc |-> "",
          dict |-> Put(dict, <<Slice(columnName, 0, Find(columnName, "[")), columnName>>,
                       columnData)]
    ELSE IF Contains(columnName, "comment")
    THEN [exc |-> "",
          dict |-> Put(dict, <<RemoveEmptyBrackets(RemoveToken(columnName, "comment")),
                               columnName>>, columnData)]
    ELSE IF columnName \in MetadataColumns
    THEN [exc |-> "", dict |-> Put(dict, <<columnName, <<>>>>, columnData)]
    ELSE IF columnName \notin DOMAIN overview
    THEN [exc |-> "", dict |-> dict]
    ELSE ProcessAnswer(dict, columnName, columnData, overview[columnName], mapping)

\* the body of the loop over row.iteritems(): [exc, dict]
ProcessValue(dict, columnName, columnData, overview, mapping) ==
    IF IsNa(columnData) THEN [exc |-> "", dict |-> dict]
    ELSE IF Contains(columnName, "other")
    THEN [exc |-> "",
          dict |-> Put(dict, <<Slice(columnName, 0, Find(columnName, "[")), columnName>>,
                       columnData)]
    ELSE IF Contains(columnName, "comment")
    THEN [exc |-> "",
          dict |-> Put(dict, <<RemoveEmptyBrackets(RemoveToken(columnName, "comment")),
                               columnName>>, columnData)]
    ELSE IF columnName \in MetadataColumns
    THEN [exc |-> "", dict |-> Put(dict, <<columnName, <<>>>>, columnData)]
    ELSE IF columnName \notin DOMAIN overview
    THEN [exc |-> "Exception", dict |-> dict]
    ELSE ProcessAnswer(dict, columnName, columnData, overview[columnName], mapping)

\* the loop over row.iteritems(), from column k on; the first exception ends it
RECURSIVE ProcessRowFrom(_, _, _, _, _, _)
ProcessRowFrom(dict, columns, k, row, overview, mapping) ==
    IF k > Len(columns) THEN [exc |-> "", dict |-> dict]
    ELSE LET step == ProcessValue(dict, columns[k], Value(row, columns[k]), overview, mapping)
         IN  IF step.exc # "" THEN step
             ELSE ProcessRowFrom(step.dict, columns, k + 1, row, overview, mapping)

\* an empty participant_dict
EmptyDict == [key \in {} |-> NaN]


-----------------------------------------------------------------------------
(* survey.dataframe: the responses as LimeSurvey exports them, one column  *)
(* per metadata field and per answer field of a question.                  *)

RECURSIVE Flatten(_)
Flatten(ss) == IF ss = <<>> THEN <<>> ELSE Head(ss) \o Flatten(Tail(ss))

\* the columns of the export that hold the answers to one question; a
\* ranking has one column per rank
ExportColumns(q) ==
    LET t == q.question_type
        other == IF q.title \in WithOther
                 THEN <<q.title \o <<"[", "other", "]">>>> ELSE <<>>
    IN  IF t = "List with comment"
        THEN <<q.title, q.title \o <<"[", "comment", "]">>>> \o other
        ELSE IF t \in {"Multiple choice", "Array"}
        THEN [k \in 1..Len(q.subquestions) |-> Merged(q.title, q.subquestions[k].title)]
             \o other
        ELSE IF t = "Multiple choice with comments"
        THEN Flatten([k \in 1..Len(q.subquestions) |->
                        <<Merged(q.title, q.subquestions[k].title),
                          q.title \o <<"[">> \o q.subquestions[k].title
                                  \o <<"comment", "]">>>>])
             \o other
             \o (IF other = <<>> THEN <<>>
                 ELSE <<q.title \o <<"[", "other", "comment", "]">>>>)
        ELSE IF t = "Ranking"
        THEN [k \in 1..Len(q.answers) |-> Merged(q.title, <<Digits[k + 1]>>)]
        ELSE <<q.title>> \o other

\* the columns of survey.dataframe, in order; refurl is a column of the export
\* that is neither a metadata column of the processor nor an answer column
DataColumns ==
    <<<<"id">>, <<"submitdate">>, <<"lastpage">>, <<"startlanguage">>, <<"seed">>,
      <<"refurl">>>>
    \o Flatten([k \in 1..Len(Questions) |-> ExportColumns(Questions[k])])

Range(s) == {s[k] : k \in 1..Len(s)}

FreeText == StrVal(<<"free text">>)

\* the values an answer column of question q may hold
ColumnValues(q, column) ==
    IF Contains(column, "other") \/ Contains(column, "comment")
       \/ q.question_type \in {"Long free text", "Short free text"}
    THEN {NaN, FreeText}
    ELSE IF q.question_type \in {"Multiple choice", "Multiple choice with comments"}
    THEN {NaN, StrVal(Yes)}
    ELSE {NaN} \cup {StrVal(q.answers[k].code) : k \in 1..Len(q.answers)}
               \cup (IF q.title \in WithOther THEN {StrVal(Oth)} ELSE {})

\* what the survey lets a respondent enter: a ranking ranks every answer once,
\* a comment belongs to a given answer, and the text of a list's 'other' field
\* to the answer code '-oth-'
ValidAnswer(q, ans) ==
    LET cols == ExportColumns(q)
    IN  /\ q.question_type = "Ranking" =>
            \A j, k \in 1..Len(cols) :
                /\ ~IsNa(ans[cols[k]])
                /\ j < k => ans[cols[j]] # ans[cols[k]]
        /\ q.question_type \in {"List with comment", "Multiple choice with comments"} =>
            \A k \in 2..Len(cols) :
                (Contains(cols[k], "comment") /\ ~IsNa(ans[cols[k]])) =>
                    ~IsNa(ans[cols[k - 1]])
        /\ q.question_type \in {"List radio", "List dropdown", "List with comment"} =>
            \A k \in 1..Len(cols) :
                Contains(cols[k], "other") =>
                    (IsNa(ans[cols[k]]) <=> ans[q.title] # StrVal(Oth))

\* the answers to question q: a value for each of its columns
AnswersOf(q) ==
    {ans \in [Range(ExportColumns(q)) -> UNION {ColumnValues(q, c) : c \in Range(ExportColumns(q))}] :
        /\ \A c \in Range(ExportColumns(q)) : ans[c] \in ColumnValues(q, c)
        /\ ValidAnswer(q, ans)}

\* a row without its missing fields
Sparse(row) == [c \in {d \in DOMAIN row : ~IsNa(row[d])} |-> row[c]]

\* the last page of the survey: the default of filter_completed_questions
LastPage == 39

\* the metadata of a respondent who completed the survey, of one who stopped on
\* an earlier page and of one who never left the first page; the id is set by
\* the place in the table
Metadata(lastpage) ==
    (<<"id">> :> IntVal(0))
    @@ (<<"submitdate">> :> IF lastpage = IntVal(LastPage) THEN StrVal(<<"2020-05-01">>) ELSE NaN)
    @@ (<<"lastpage">> :> lastpage)
    @@ (<<"startlanguage">> :> StrVal(<<"en">>))
    @@ (<<"seed">> :> IntVal(7))

LastPages == {IntVal(LastPage), IntVal(12), NaN}

\* the answer fields a respondent filled: nothing, the referrer, or one
\* question
Filled ==
    {[c \in {} |-> NaN], (<<"refurl">> :> StrVal(<<"http://ref">>))}
    \cup UNION {{ans \in AnswersOf(Questions[k]) : \E c \in DOMAIN ans : ~IsNa(ans[c])}
                : k \in 1..Len(Questions)}

\* the fields of the first page
FirstPage == {"refurl", "DEM1"}

\* a respondent who did not complete the survey has filled nothing beyond the
\* first page
Respondents ==
    {Sparse(meta @@ filled) :
        meta \in {Metadata(p) : p \in LastPages},
        filled \in {f \in Filled : \A c \in DOMAIN f : ~IsNa(f[c]) => c[1] \in FirstPage}}
    \cup {Sparse(Metadata(IntVal(LastPage)) @@ filled) : filled \in Filled}

\* the respondents who filled the first page at most
FirstPageRespondents ==
    {row \in Respondents : \A c \in DOMAIN row : c \in MetadataColumns \/ c[1] \in FirstPage}

\* the table of the respondents rows[1], rows[2], ..., numbered from 1
Table(rows) == [k \in 1..Len(rows) |-> [rows[k] EXCEPT ![<<"id">>] = IntVal(k)]]


-----------------------------------------------------------------------------
(* SurveyProcessor.process_user_input on an MLSurveyProcessor.             *)

\* a faulty variant of FilterCompletedQuestions: the rows before the last
\* page are kept as well
FilterCompletedQuestions_AtMost(df, lastpage) ==
    SelectSeq(df, LAMBDA row : Value(row, <<"lastpage">>).t = "int"
                               /\ Value(row, <<"lastpage">>).n <= lastpage)

\* filter_completed_questions: data_df[data_df['lastpage'] == lastpage]
FilterCompletedQuestions(df, lastpage) ==
    SelectSeq(df, LAMBDA row : Value(row, <<"lastpage">>) = IntVal(lastpage))

\* a faulty variant of StoredDataframe: the filtered table is stored in the
\* survey
StoredDataframe_Filtered(original, local) == local

\* survey.dataframe after the call has bound and filtered its local data_df
StoredDataframe(original, local) == original

\* pd.concat([survey_df_copy, pd.DataFrame.from_records([participant_dict])]):
\* the columns of both, and one more row; a cell the row has no value for is
\* missing
Concat(table, dict) ==
    [columns |-> table.columns \cup DOMAIN dict, rows |-> Append(table.rows, dict)]

\* the cell of a row of a table under a column: NaN when it was never written
Cell(row, key) == IF key \in DOMAIN row THEN row[key] ELSE NaN

NoResult == [kind |-> "none", exc |-> "", index |-> <<>>, columns |-> {}, rows |-> <<>>]

Raised(e) == [kind |-> "raised", exc |-> e, index |-> <<>>, columns |-> {}, rows |-> <<>>]

\* survey_df_copy.set_index('id')
SetIndex(table) ==
    IF IdColumn \notin table.columns THEN Raised("KeyError")
    ELSE [kind |-> "table", exc |-> "",
          index |-> [k \in 1..Len(table.rows) |-> Cell(table.rows[k], IdColumn)],
          columns |-> table.columns \ {IdColumn},
          rows |-> [k \in 1..Len(table.rows) |->
                      [key \in DOMAIN table.rows[k] \ {IdColumn} |-> table.rows[k][key]]]]

EmptyTable == [columns |-> {}, rows |-> <<>>]

\* self.convert_questions_to_df() of the MLSurveyProcessor
Schema == MLConvertQuestionsToDf(Questions)

\* self.create_question_overview_df()
Overview == CreateQuestionOverviewDf(Questions)

\* self.make_answer_code_to_text_mapping()
Mapping == MakeAnswerCodeToTextMapping(Questions)

\* the loop over data_df.iterrows(), from row k on, run being [exc, table] so
\* far; an exception ends the call with the table as it is
\* the end of one turn of the loop, participant being [exc, dict] of the row
AfterRow(table, participant) ==
    IF participant.exc # "" THEN [exc |-> participant.exc, table |-> table]
    ELSE [exc |-> "", table |-> Concat(table, participant.dict)]

RECURSIVE ProcessRows(_, _, _)
ProcessRows(run, rows, k) ==
    IF k > Len(rows) \/ run.exc # "" THEN run
    ELSE ProcessRows(AfterRow(run.table,
                              ProcessRowFrom(EmptyDict, DataColumns, 1, rows[k],
                                             Overview, Mapping)),
                     rows, k + 1)

\* process_user_input(completed_only = c, fill_na = f), from the call to the
\* return or the exception
ProcessUserInput(c, f) ==
    /\ Len(history) < MaxCalls
    /\ completed_only' = c
    /\ fill_na' = f
    /\ data_df' = IF c THEN FilterCompletedQuestions(dataframe, LastPage) ELSE dataframe
    /\ dataframe' = StoredDataframe(dataframe, data_df')
    /\ \E run \in {ProcessRows([exc |-> "", table |-> [columns |-> Schema, rows |-> <<>>]],
                                IF c THEN FilterCompletedQuestions(dataframe, LastPage)
                                ELSE dataframe, 1)} :
           /\ survey_df_copy' = run.table
           /\ result' = IF run.exc # "" THEN Raised(run.exc) ELSE SetIndex(run.table)
    /\ history' = Append(history, [completed_only |-> c, fill_na |-> f, result |-> result'])
    /\ UNCHANGED <<convVars, chiVars>>

\* another method of the processor is called: the schema, the overview, the
\* mapping or the filter; each builds and returns a new value and assigns
\* nothing
OtherCall ==
    /\ Schema # {}
    /\ DOMAIN Overview # {}
    /\ DOMAIN Mapping # {}
    /\ Len(FilterCompletedQuestions(dataframe, LastPage)) <= Len(dataframe)
    /\ UNCHANGED vars

ConvIdle == ans_code = NaN /\ conv = [exc |-> "", val |-> 0, done |-> FALSE]

ChiIdle == contigency_table = <<>> /\ chi_pc = "idle" /\ printed = <<>>

ProcIdle ==
    /\ completed_only = FALSE
    /\ fill_na = FALSE
    /\ data_df = <<>>
    /\ survey_df_copy = EmptyTable
    /\ result = NoResult
    /\ history = <<>>

\* an MLSurveyProcessor over a survey of at most MaxRows respondents
Init ==
    /\ \E n \in 0..MaxRows : \E rows \in [1..n -> Respondents] : dataframe = Table(rows)
    /\ ProcIdle
    /\ ConvIdle
    /\ ChiIdle

\* one call of process_user_input
Next ==
    \E c \in BOOLEAN, f \in BOOLEAN : /\ history = <<>>
                                      /\ ProcessUserInput(c, f)

Spec == Init /\ [][Next]_vars

\* the same over respondents who filled the first page at most
InitCalls ==
    /\ \E n \in 0..MaxRows : \E rows \in [1..n -> FirstPageRespondents] :
           dataframe = Table(rows)
    /\ ProcIdle
    /\ ConvIdle
    /\ ChiIdle

\* up to MaxCalls calls of process_user_input, and other calls in between
NextCalls ==
    \/ \E c \in BOOLEAN, f \in BOOLEAN : ProcessUserInput(c, f)
    \/ OtherCall

SpecCalls == InitCalls /\ [][NextCalls]_vars

-----------------------------------------------------------------------------
(* convert_answer_code_to_int on its own.                                  *)

Alphabet == {"A", "S", "Q", "Y", "-", "0", "1", "2", "9"}

\* the strings of at most n characters
Strings(n) == UNION {[1..k -> Alphabet] : k \in 0..n}

InitConv ==
    /\ ans_code \in {StrVal(s) : s \in Strings(MaxLen)} \cup {IntVal(1), NaN}
    /\ conv = [exc |-> "", val |-> 0, done |-> FALSE]
    /\ dataframe = <<>>
    /\ ProcIdle
    /\ ChiIdle

\* the call convert_answer_code_to_int(ans_code)
Convert ==
    /\ ~conv.done
    /\ conv' = [exc |-> ConvertAnswerCodeToInt(ans_code).exc,
                val |-> ConvertAnswerCodeToInt(ans_code).val,
                done |-> TRUE]
    /\ UNCHANGED <<ans_code, procVars, chiVars>>

NextConv == Convert

SpecConv == InitConv /\ [][NextConv]_vars

-----------------------------------------------------------------------------
(* calculate_chi_square of analysis.py.                                    *)

\* the least frequency the test asks of every cell
MinCell == 5

Cells == (MinCell - 1)..(MinCell - 1 + CellSpan)

\* the cells of the table that are below 5: arr[arr < 5]
Below(table) ==
    {rc \in (1..Len(table)) \X (1..Len(table[1])) : table[rc[1]][rc[2]] < MinCell}

\* left + right for a str left: Python concatenates two strings and numpy
\* raises when right is an array of numbers
StrPlus(left, right) ==
    IF right.t = "str" THEN [exc |-> "", s |-> left \o right.s]
    ELSE [exc |-> "TypeError", s |-> <<>>]

\* the array of expected frequencies that chi2_contingency returns
Expected == [t |-> "ndarray", n |-> 0, s |-> <<>>]

InitChi ==
    /\ contigency_table \in [1..2 -> [1..2 -> Cells]]
    /\ chi_pc = "idle"
    /\ printed = <<>>
    /\ dataframe = <<>>
    /\ ProcIdle
    /\ ConvIdle

\* the check of the cells: the warning, or the test and its degrees of freedom
ChiCheck ==
    /\ chi_pc = "idle"
    /\ IF Cardinality(Below(contigency_table)) > 0
       THEN /\ printed' = Append(printed, "warning")
            /\ chi_pc' = "returned"
       ELSE /\ printed' = Append(printed, "dof")
            /\ chi_pc' = "tested"
    /\ UNCHANGED <<contigency_table, procVars, convVars>>

\* print('Expected frequency table ' + expected); the verdicts are printed
\* after it
ChiPrintExpected ==
    /\ chi_pc = "tested"
    /\ LET line == StrPlus(<<"Expected frequency table ">>, Expected)
       IN  IF line.exc # ""
           THEN /\ chi_pc' = "raised"
                /\ printed' = printed
           ELSE /\ chi_pc' = "returned"
                /\ printed' = printed \o <<"expected", "statistic", "verdict",
                                          "significance", "verdict">>
    /\ UNCHANGED <<contigency_table, procVars, convVars>>

NextChi == ChiCheck \/ ChiPrintExpected

SpecChi == InitChi /\ [][NextChi]_vars

-----------------------------------------------------------------------------
(* The claims.                                                             *)

\* a call of process_user_input has ended
Called == history # <<>>

\* the last call returned a table
Returned == Called /\ result.kind = "table"

\* the respondent of row j of the returned table
Respondent(j) == dataframe[result.index[j].n]

\* the keys of the cells the last call wrote
Written == UNION {DOMAIN survey_df_copy.rows[j] : j \in 1..Len(survey_df_copy.rows)}

Wanted ==
    {k \in 1..Len(dataframe) :
        completed_only => Value(dataframe[k], <<"lastpage">>) = IntVal(LastPage)}

\* C2: the returned table has exactly one row for every respondent whose
\* lastpage is 39 when completed_only is set, and for every respondent when it
\* is not, in the order of survey.dataframe; the filtered data_df holds exactly
\* the rows whose lastpage is 39, in their original order.
C2_OneRowPerRespondent ==
    Returned =>
        /\ Len(result.rows) = Cardinality(Wanted)
        /\ Len(result.index) = Cardinality(Wanted)
        /\ Len(data_df) = Cardinality(Wanted)
        /\ \A j \in 1..Len(result.index) :
              /\ result.index[j].t = "int"
              /\ result.index[j].n \in Wanted
              /\ data_df[j] = dataframe[result.index[j].n]
              /\ Cell(result.rows[j], <<<<"lastpage">>, <<>>>>)
                    = Value(Respondent(j), <<"lastpage">>)
        /\ \A j, k \in 1..Len(result.index) :
              j < k => result.index[j].n < result.index[k].n

\* C2: of two respondents only the second completed the survey, and the table
\* returned for completed_only holds the second alone
C2_Witness ==
    /\ Returned
    /\ completed_only
    /\ Len(dataframe) = 2
    /\ Value(dataframe[1], <<"lastpage">>) = IntVal(12)
    /\ Value(dataframe[2], <<"lastpage">>) = IntVal(LastPage)
    /\ result.index = <<IntVal(2)>>

\* C3: with fill_na set, the returned table holds no missing cell.
C3_NoMissingCell ==
    (Returned /\ fill_na) =>
        \A j \in 1..Len(result.rows) : \A key \in result.columns :
            ~IsNa(Cell(result.rows[j], key))

\* a processed respondent holds a value in column c
Holds(c) == \E j \in 1..Len(data_df) : ~IsNa(Value(data_df[j], c))

\* C4, as stated: the call raises whenever a processed respondent holds a value
\* in a column that is neither a metadata column nor an answer column of the
\* question overview.
C4_RaisesOnUnforeseen ==
    Called =>
        \A c \in Range(DataColumns) :
            (Holds(c) /\ c \notin MetadataColumns /\ c \notin DOMAIN Overview)
                => result.kind = "raised"

\* C4, amended: the call raises whenever a processed respondent holds a value in
\* a column whose name contains neither 'other' nor 'comment' and that is
\* neither a metadata column nor an answer column of the question overview;
\* no table is returned and no cell of that column is written.
C4_RaisesOnUnforeseenButOther ==
    Called =>
        \A c \in Range(DataColumns) :
            (/\ Holds(c)
             /\ ~Contains(c, "other")
             /\ ~Contains(c, "comment")
             /\ c \notin MetadataColumns
             /\ c \notin DOMAIN Overview)
                => /\ result.kind = "raised"
                   /\ \A key \in Written : key[1] # c /\ key[2] # c

\* C4: the second of two processed respondents holds a referrer, and the call
\* raised after writing the first
C4_Witness ==
    /\ Called
    /\ Len(data_df) = 2
    /\ IsNa(Value(data_df[1], <<"refurl">>))
    /\ ~IsNa(Value(data_df[2], <<"refurl">>))
    /\ result = Raised("Exception")
    /\ Len(survey_df_copy.rows) = 1

ListTypes == {"List radio", "List dropdown", "List with comment", "Array"}

\* the question a column of the overview belongs to
ParentTitle(column) ==
    IF Contains(column, "[") THEN Slice(column, 0, Find(column, "[")) ELSE column

\* C5: for every respondent of the returned table and every column of a list or
\* array question that holds an answer code c, the three cells under that column
\* are consistent: a_code is c, a_text is the text the mapping gives for c in
\* the (parent) question, and a is convert_answer_code_to_int(c).
C5_ListCellsConsistent ==
    Returned =>
        \A j \in 1..Len(result.rows) : \A column \in DOMAIN Overview :
            LET c == Value(Respondent(j), column)
            IN  (Overview[column] \in ListTypes /\ ~IsNa(c)) =>
                    /\ Cell(result.rows[j], <<column, <<"a_code">>>>) = c
                    /\ c.s \in DOMAIN Mapping[ParentTitle(column)]
                    /\ Cell(result.rows[j], <<column, <<"a_text">>>>)
                          = StrVal(Mapping[ParentTitle(column)][c.s])
                    /\ ConvertAnswerCodeToInt(c).exc = ""
                    /\ Cell(result.rows[j], <<column, <<"a">>>>)
                          = IntVal(ConvertAnswerCodeToInt(c).val)

\* C5: the returned table holds a respondent with an array answer and one with
\* a list answer
C5_Witness ==
    /\ Returned
    /\ Len(result.rows) = 2
    /\ Value(Respondent(1), <<"PRA", "[", "SQ002", "]">>) = StrVal(A1)
    /\ Value(Respondent(2), <<"DEM1">>) = StrVal(A2)
    /\ Cell(result.rows[2], <<<<"DEM1">>, <<"a_text">>>>) = StrVal(<<"male">>)

\* the ranks the respondent gave to the answer with this code
RanksOf(row, q, code) ==
    {r \in 1..Len(q.answers) : Value(row, Merged(q.title, <<Digits[r + 1]>>)) = StrVal(code)}

\* C6: for a ranking question, the 'a' cell of an answer option the respondent
\* selected holds the rank the respondent gave that option, from 1 to n.  (The
\* claim also asks for 0 under an option that was not selected; that cell is
\* missing, as C3 shows.)
C6_RankOfOption ==
    Returned =>
        \A j \in 1..Len(result.rows) : \A k \in 1..Len(Questions) :
            LET q == Questions[k]
            IN  q.question_type = "Ranking" =>
                    \A o \in 1..Len(q.answers) :
                        LET ranks == RanksOf(Respondent(j), q, q.answers[o].code)
                            cell == Cell(result.rows[j],
                                         <<Merged(q.title, q.answers[o].sortorder), <<"a">>>>)
                        IN  ranks # {} => \E r \in ranks : cell = IntVal(r)

\* C7: for a multiple choice question, the 'a' cell of every subquestion column
\* is 0 or 1 for every respondent, and the 'a_text' cell of a selected
\* subquestion is the text of that subquestion.
C7_ZeroOrOne ==
    Returned =>
        \A j \in 1..Len(result.rows) : \A k \in 1..Len(Questions) :
            LET q == Questions[k]
            IN  q.question_type \in {"Multiple choice", "Multiple choice with comments"} =>
                    \A sq \in 1..Len(q.subquestions) :
                        LET column == Merged(q.title, q.subquestions[sq].title)
                        IN  /\ Cell(result.rows[j], <<column, <<"a">>>>)
                                  \in {IntVal(0), IntVal(1)}
                            /\ ~IsNa(Value(Respondent(j), column)) =>
                                  Cell(result.rows[j], <<column, <<"a_text">>>>)
                                      = StrVal(q.subquestions[sq].question)

\* the decimal numeral of a natural number
RECURSIVE Numeral(_)
Numeral(n) ==
    IF n < 10 THEN <<Digits[n + 1]>> ELSE Numeral(n \div 10) \o <<Digits[(n % 10) + 1]>>

\* a string of digits without its leading zeros; "0" when nothing else is left
RECURSIVE DropLeadingZeros(_)
DropLeadingZeros(s) ==
    IF Len(s) > 1 /\ Head(s) = "0" THEN DropLeadingZeros(Tail(s)) ELSE s

\* the digits of a string, in order
DigitsOf(s) == SelectSeq(s, IsDigit)

\* C8, as stated: for every string answer code the function returns an integer:
\* 1 for 'Y', and otherwise the number its digits write.
C8_IntegerForEveryString ==
    (conv.done /\ ans_code.t = "str") =>
        /\ conv.exc = ""
        /\ ans_code.s = Yes => conv.val = 1
        /\ (ans_code.s # Yes /\ DigitsOf(ans_code.s) # <<>>) =>
              Numeral(conv.val) = DropLeadingZeros(DigitsOf(ans_code.s))

\* C8, amended: for the code 'Y' the function returns 1; for every other string
\* with at least one digit it returns the number its digits write, taken in
\* order, the other characters removed and leading zeros dropped; for a string
\* without a digit, other than 'Y', it raises ValueError and returns nothing.
C8_IntegerForDigits ==
    (conv.done /\ ans_code.t = "str") =>
        IF ans_code.s = Yes THEN conv.exc = "" /\ conv.val = 1
        ELSE IF DigitsOf(ans_code.s) # <<>>
        THEN /\ conv.exc = ""
             /\ conv.val >= 0
             /\ Numeral(conv.val) = DropLeadingZeros(DigitsOf(ans_code.s))
        ELSE conv.exc = "ValueError"

\* C8: the code Q01 was converted to 1
C8_Witness ==
    /\ conv.done
    /\ ans_code = StrVal(<<"Q", "0", "1">>)
    /\ conv.exc = ""
    /\ conv.val = 1

\* C9: calculate_chi_square reports a verdict exactly when every cell of the
\* table is at least 5, and only warns otherwise.
C9_VerdictIffCellsLargeEnough ==
    chi_pc \in {"returned", "raised"} =>
        /\ Below(contigency_table) = {} <=> (\E k \in 1..Len(printed) : printed[k] = "verdict")
        /\ Below(contigency_table) # {} => printed = <<"warning">>

====
